---- MODULE Spec2Model ----
(***************************************************************************)
(* FinCore (src/app.py): a Streamlit script that ingests 10-K figures into *)
(* a SQLite table or a MongoDB collection, loads them back as a flat       *)
(* table and derives ratios from it.                                       *)
(*                                                                         *)
(* One script run is: init_sqlite_db, the load of the selected data        *)
(* source, tab 2 (ad-hoc SQL), tab 3 (analytics), tab 4 (the two fetch     *)
(* buttons). The two databases outlive the run. Money amounts are          *)
(* integers; a derived ratio is an integer count of 1/10000 (ratios,       *)
(* .round(4)) or of 1/100 (z-score, round(.., 2)).                         *)
(***************************************************************************)
EXTENDS Integers, Sequences, FiniteSets, TLC

VARIABLES
    year,         \* datetime.datetime.now().year
    sqlExists,    \* finance_warehouse.db: the financials table exists
    sqlCols,      \* its columns
    sqlPK,        \* it has PRIMARY KEY (ticker, year)
    sqlRows,      \* its committed rows, in rowid order
    mongoDocs,    \* FinDataWarehouse.filings, in insertion order
    pc,           \* position of the script run
    data_source,  \* the sidebar radio
    df,           \* the table loaded by this run: [columns, rows]
    search_query, \* the text of tab 2's query box
    queryReport,  \* what tab 2 showed for it
    analytics,    \* df_analytics of tab 3
    backend,      \* the store of the latest fetch
    tickers,      \* its identifier list
    idx,          \* identifiers the loop is done with
    results,      \* fetch_to_sqlite's results list
    attempted,    \* status_text: the identifiers announced as being fetched
    reports,      \* st.warning / st.error, one entry per reported identifier
    written,      \* the records the store accepted from the latest fetch
    success,      \* the counts shown by st.success: <<>> or <<n>>
    conn,         \* fetch_to_sqlite's sqlite3 connection
    client,       \* fetch_to_mongodb's MongoClient
    port,         \* the port it answered on: {} or {p}
    fetches       \* fetch runs so far

vars == <<year, sqlExists, sqlCols, sqlPK, sqlRows, mongoDocs, pc,
          data_source, df, search_query, queryReport, analytics, backend,
          tickers, idx, results, attempted, reports, written, success, conn,
          client, port, fetches>>

storeVars == <<sqlExists, sqlCols, sqlPK, sqlRows, mongoDocs>>
fetchVars == <<backend, tickers, idx, results, attempted, reports, written,
               success, conn, client, port>>
viewVars  == <<data_source, df, search_query, queryReport, analytics>>

----------------------------------------------------------------------------
(* Bounds of the model *)

MaxTickers == 2     \* longest identifier list entered in tab 4
MaxFetches == 2     \* fetch runs in a behaviour
MaxRows == 2        \* rows of a table handed to the ratio engine directly
MaxStored == 3      \* rows the financials table grows to in a behaviour

(* Program constants *)

AuditTolerance == 1000000

Null == "None"
NoTable == [columns |-> {}, rows |-> <<>>]

Abs(x) == IF x < 0 THEN -x ELSE x

----------------------------------------------------------------------------
(* The filings provider (edgar.Company): an input of the program *)

Tickers == {"AAPL", "MSFT", "ZZZZ"}

FA == [revenue |-> 100, net_income |-> 10, assets |-> 500,
       liabilities |-> 200, equity |-> 300]
FB == [revenue |-> 0, net_income |-> 5, assets |-> 2,
       liabilities |-> 1, equity |-> 1000001]
FC == [revenue |-> 50, net_income |-> 0, assets |-> 0,
       liabilities |-> 0, equity |-> 0]

\* The latest 10-K of a company at the time of asking: AAPL files a new one
\* each year, MSFT's stays the latest, ZZZZ never filed one.
FilingsOf(t, y) ==
    CASE t = "AAPL" -> IF y = 2025 THEN {FA} ELSE {FB}
      [] t = "MSFT" -> {FC}
      [] OTHER      -> {}

\* What one pass through the try block can meet: an exception anywhere in it,
\* an empty filings list, or a latest filing.
Outcomes(t, y) ==
    {[kind |-> "error"]}
      \cup (IF FilingsOf(t, y) = {} THEN {[kind |-> "nofiling"]} ELSE {})
      \cup {[kind |-> "filing", fin |-> f] : f \in FilingsOf(t, y)}

\* The identifier lists tab 4 can pass on: non-empty (the "if tickers" guard).
TickerLists == UNION {[1..n -> Tickers] : n \in 1..MaxTickers}

Years == {2025, 2026}

CompanyName(t) == CASE t = "AAPL" -> "Apple Inc." [] t = "MSFT" -> "MICROSOFT CORP"
                    [] OTHER -> t
Cik(t) == CASE t = "AAPL" -> 320193 [] t = "MSFT" -> 789019 [] OTHER -> 0

\* latest_filing.filing_date: the provider hands out a datetime.date.
FilingDate(y) == [type |-> "date", y |-> y]

----------------------------------------------------------------------------
(* The relational store *)

InitColumns == {"ticker", "year", "revenue", "net_income", "assets",
                "liabilities", "equity"}

\* CREATE TABLE IF NOT EXISTS financials (...) ; commit
init_sqlite_db(t) ==
    IF t.exists THEN t
    ELSE [exists |-> TRUE, cols |-> InitColumns, pk |-> TRUE, rows |-> <<>>]

\* The dict built for one identifier, validation flag included.
AuditPassSqlite(f) ==
    IF Abs(f.assets - (f.liabilities + f.equity)) < AuditTolerance THEN 1 ELSE 0

SqliteData(t, f, y) ==
    [ticker |-> t, year |-> y, revenue |-> f.revenue,
     net_income |-> f.net_income, assets |-> f.assets, equity |-> f.equity,
     liabilities |-> f.liabilities, audit_pass |-> AuditPassSqlite(f)]

\* pd.DataFrame(results).columns
FrameColumns(rs) == UNION {DOMAIN rs[i] : i \in 1..Len(rs)}

Key(r) == <<r.ticker, r.year>>

KeysDistinct(rows) ==
    \A i, j \in 1..Len(rows) : i # j => Key(rows[i]) # Key(rows[j])

\* df.to_sql("financials", conn, if_exists="append", index=False,
\* method="multi"): a missing table is created from the frame; otherwise one
\* INSERT naming the frame's columns runs in a transaction, and sqlite refuses
\* it when a column is unknown or a primary key repeats.
ToSqlAccepted(t, rs) ==
    \/ ~t.exists
    \/ /\ FrameColumns(rs) \subseteq t.cols
       /\ (t.pk => KeysDistinct(t.rows \o rs))

to_sql(t, rs) ==
    IF ~t.exists
    THEN [exists |-> TRUE, cols |-> FrameColumns(rs), pk |-> FALSE, rows |-> rs]
    ELSE IF ToSqlAccepted(t, rs) THEN [t EXCEPT !.rows = t.rows \o rs]
    ELSE t

Table == [exists |-> sqlExists, cols |-> sqlCols, pk |-> sqlPK, rows |-> sqlRows]

SetTable(t) ==
    /\ sqlExists' = t.exists
    /\ sqlCols' = t.cols
    /\ sqlPK' = t.pk
    /\ sqlRows' = t.rows

\* The rows a database file can hold when the program starts: the file
\* outlives the process and the table is created only IF NOT EXISTS.
PriorRow == [ticker |-> "AAPL", year |-> 2025, revenue |-> FA.revenue,
             net_income |-> FA.net_income, assets |-> FA.assets,
             liabilities |-> FA.liabilities, equity |-> FA.equity]
PriorTables == {<<>>, <<PriorRow>>}

----------------------------------------------------------------------------
(* The document store. Which candidate ports answer is the environment's
   choice each time a client is asked for. *)

PortsReversed == <<27018, 27017>>

\* Line 23: the candidates, in the order the loop of line 24 takes them.
Ports == <<27017, 27018>>
PortSet == {Ports[i] : i \in 1..Len(Ports)}

\* The first candidate port that answers server_info(), else (None, None).
get_mongo_client(up) ==
    IF \E i \in 1..Len(Ports) : Ports[i] \in up
    THEN [client |-> "MongoClient",
          port |-> {Ports[CHOOSE i \in 1..Len(Ports) :
                              /\ Ports[i] \in up
                              /\ \A j \in 1..(i-1) : Ports[j] \notin up]}]
    ELSE [client |-> Null, port |-> {}]

\* datetime.date -> datetime.datetime at midnight; a datetime is kept.
ToDatetime(d) ==
    IF d.type = "date" THEN [type |-> "datetime", y |-> d.y, time |-> "00:00"]
    ELSE d

AuditPassMongo(f) == IF f.assets > 0 THEN 1 ELSE 0

Document(t, f, now) ==
    [ticker |-> t, timestamp |-> now, report_type |-> "10-K",
     financials |-> [revenue |-> f.revenue, net_income |-> f.net_income,
                     total_assets |-> f.assets,
                     total_liabilities |-> f.liabilities],
     metadata |-> [company_name |-> CompanyName(t), cik |-> Cik(t),
                   filing_date |-> ToDatetime(FilingDate(now))],
     audit_pass |-> AuditPassMongo(f)]

SetFields(old, new) ==
    [k \in (DOMAIN old) \cup (DOMAIN new) |->
        IF k \in DOMAIN new THEN new[k] ELSE old[k]]

\* collection.update_one({"ticker": t}, {"$set": document}, upsert=True)
update_one(docs, t, doc) ==
    IF \E i \in 1..Len(docs) : docs[i].ticker = t
    THEN LET i == CHOOSE k \in 1..Len(docs) :
                     /\ docs[k].ticker = t
                     /\ \A j \in 1..(k-1) : docs[j].ticker # t
         IN [docs EXCEPT ![i] = SetFields(docs[i], doc)]
    ELSE Append(docs, doc)

----------------------------------------------------------------------------
(* The load path of a script run *)

LoadSqlite ==
    IF sqlExists THEN [columns |-> sqlCols, rows |-> sqlRows] ELSE NoTable

MongoColumns == {"ticker", "revenue", "net_income", "assets", "liabilities",
                 "equity"}

Flatten(d) ==
    [ticker |-> d.ticker, revenue |-> d.financials.revenue,
     net_income |-> d.financials.net_income,
     assets |-> d.financials.total_assets,
     liabilities |-> d.financials.total_liabilities,
     equity |-> d.financials.total_assets - d.financials.total_liabilities]

\* up: the ports answering when the run asks for a client.
LoadMongo(up) ==
    IF get_mongo_client(up).client = Null \/ mongoDocs = <<>> THEN NoTable
    ELSE [columns |-> MongoColumns,
          rows |-> [i \in 1..Len(mongoDocs) |-> Flatten(mongoDocs[i])]]

----------------------------------------------------------------------------
(* The ratio engine *)

None == [k |-> "none"]
Num(v) == [k |-> "num", v |-> v]

\* The integers v with |scale * n / d - v| <= 1/2, for d # 0: the value
\* rounded to a whole count of 1/scale. A quotient exactly half way lies
\* within floating-point error of both neighbours, and either may come out.
Rounded(n, d, scale) ==
    LET nn == IF d < 0 THEN -n ELSE n
        dd == IF d < 0 THEN -d ELSE d
        q  == (scale * nn) \div dd
    IN {v \in {q, q + 1} : 2 * Abs(scale * nn - v * dd) <= dd}

\* A float Series divided by a float Series, then .round(4): x/0 is inf or
\* -inf, 0/0 is NaN, and no exception is raised.
SeriesDiv(n, d) ==
    IF d # 0 THEN {Num(v) : v \in Rounded(n, d, 10000)}
    ELSE IF n > 0 THEN {[k |-> "inf"]}
    ELSE IF n < 0 THEN {[k |-> "-inf"]}
    ELSE {[k |-> "nan"]}

\* The derived columns of one row of calculate_financial_ratios(df).
calculate_financial_ratios(cols, r) ==
    [ROE : IF "equity" \in cols THEN SeriesDiv(r.net_income, r.equity)
           ELSE {None},
     Debt_to_Equity : IF "equity" \in cols
                      THEN SeriesDiv(r.liabilities, r.equity) ELSE {None},
     Profit_Margin : IF "revenue" \in cols
                     THEN SeriesDiv(r.net_income, r.revenue) ELSE {None},
     Asset_Turnover : IF "assets" \in cols
                      THEN SeriesDiv(r.revenue, r.assets) ELSE {None}]

\* 100 * z_score as the fraction ZNum / ZDen, from
\*   liquidity = (assets - liabilities) / assets
\*   profitability = net_income / assets
\*   z_score = 1.2 * liquidity + 3.3 * profitability
\*             + 0.6 * (equity / liabilities)
ZNumSwapped(r) ==
    (330 * (r.assets - r.liabilities) + 120 * r.net_income) * r.liabilities
      + 60 * r.equity * r.assets

ZNum(r) ==
    (120 * (r.assets - r.liabilities) + 330 * r.net_income) * r.liabilities
      + 60 * r.equity * r.assets
ZDen(r) == r.assets * r.liabilities

\* The body of the try block after the guard: a division by zero raises.
ZScore(r) ==
    IF ZDen(r) = 0 THEN [raised |-> TRUE, value |-> {}]
    ELSE [raised |-> FALSE, value |-> {Num(v) : v \in Rounded(ZNum(r), ZDen(r), 1)}]

\* calculate_advanced_metrics(row): None for the guard and for any exception.
calculate_advanced_metrics(r) ==
    IF r.assets = 0 \/ r.liabilities = 0 THEN {None}
    ELSE IF ZScore(r).raised THEN {None}
    ELSE ZScore(r).value

\* The rows tab 3 can show for one loaded row.
AnalyticsRows(cols, r) ==
    {[row |-> r, ratios |-> x, Altman_Z_Score |-> z] :
        x \in calculate_financial_ratios(cols, r),
        z \in calculate_advanced_metrics(r)}

\* df_analytics: row by row, each row on its own.
RECURSIVE AnalyticsTables(_, _)
AnalyticsTables(cols, rows) ==
    IF rows = <<>> THEN {<<>>}
    ELSE {Append(a, x) :
            a \in AnalyticsTables(cols, SubSeq(rows, 1, Len(rows) - 1)),
            x \in AnalyticsRows(cols, rows[Len(rows)])}

----------------------------------------------------------------------------
(* Tab 2: the ad-hoc query box *)

DefaultQuery == "SELECT * FROM financials WHERE net_income > 1000"
Queries == {DefaultQuery, "DELETE FROM financials", "DROP TABLE financials",
            "SELEC * FROM financials"}

Matching(rows) == {i \in 1..Len(rows) : rows[i].net_income > 1000}

\* cursor.execute(sql) on a sqlite3 connection in its default mode: a DML
\* statement opens a transaction first, a DDL statement takes effect at once,
\* and only a SELECT leaves a cursor.description behind.
Execute(t, q) ==
    CASE q = DefaultQuery ->
           [table |-> t, in_transaction |-> FALSE, raised |-> FALSE,
            description |-> TRUE, n |-> Cardinality(Matching(t.rows))]
      [] q = "DELETE FROM financials" ->
           [table |-> [t EXCEPT !.rows = <<>>], in_transaction |-> TRUE,
            raised |-> FALSE, description |-> FALSE, n |-> 0]
      [] q = "DROP TABLE financials" ->
           [table |-> [exists |-> FALSE, cols |-> {}, pk |-> FALSE,
                       rows |-> <<>>],
            in_transaction |-> FALSE, raised |-> FALSE,
            description |-> FALSE, n |-> 0]
      [] OTHER ->
           [table |-> t, in_transaction |-> FALSE, raised |-> TRUE,
            description |-> FALSE, n |-> 0]

\* pd.read_sql(search_query, conn): it never commits, and it raises when the
\* statement does or when there is no description to build columns from.
ReadSqlRaises(x) == x.raised \/ ~x.description

\* conn.close() with the transaction still open rolls it back.
AfterClose(t, x) == IF x.in_transaction THEN t ELSE x.table

----------------------------------------------------------------------------
(* The state a script run starts from *)

Init ==
    /\ year = 2025
    /\ \/ /\ sqlExists = FALSE
          /\ sqlCols = {}
          /\ sqlPK = FALSE
          /\ sqlRows = <<>>
       \/ /\ sqlExists = TRUE
          /\ sqlCols = InitColumns
          /\ sqlPK = TRUE
          /\ sqlRows \in PriorTables
    /\ mongoDocs = <<>>
    /\ pc = "idle"
    /\ data_source = "SQLite"
    /\ df = NoTable
    /\ search_query = DefaultQuery
    /\ queryReport = "none"
    /\ analytics = <<>>
    /\ backend = Null
    /\ tickers = <<>>
    /\ idx = 0
    /\ results = <<>>
    /\ attempted = <<>>
    /\ reports = <<>>
    /\ written = <<>>
    /\ success = <<>>
    /\ conn = "none"
    /\ client = "none"
    /\ port = {}
    /\ fetches = 0

\* The widgets and the loaded table of a run are not read again once tab 4
\* acts, and are gone when the next run starts.
ResetView ==
    /\ data_source' = "SQLite"
    /\ df' = NoTable
    /\ search_query' = DefaultQuery
    /\ queryReport' = "none"
    /\ analytics' = <<>>

----------------------------------------------------------------------------
(* The script run, up to tab 4 *)

\* Line 197.
ScriptStart ==
    /\ pc = "idle"
    /\ SetTable(init_sqlite_db(Table))
    /\ pc' = "load"
    /\ UNCHANGED <<year, mongoDocs, viewVars, fetchVars, fetches>>

\* Lines 203-250.
Load(src, up) ==
    /\ pc = "load"
    /\ data_source' = src
    /\ df' = (IF src = "SQLite" THEN LoadSqlite ELSE LoadMongo(up))
    /\ pc' = "tab2"
    /\ UNCHANGED <<year, storeVars, search_query, queryReport,
                   analytics, fetchVars, fetches>>

\* Lines 353-362: the query box is there for a non-empty SQLite table.
Tab2Query(q) ==
    /\ pc = "tab2"
    /\ df.rows # <<>>
    /\ data_source = "SQLite"
    /\ search_query' = q
    /\ LET x == Execute(Table, q)
       IN /\ queryReport' = (IF ReadSqlRaises(x) THEN "error" ELSE "rows")
          /\ SetTable(AfterClose(Table, x))
    /\ pc' = "tab3"
    /\ UNCHANGED <<year, mongoDocs, data_source, df, analytics,
                   fetchVars, fetches>>

\* Lines 346-347 and 363-365: nothing is executed.
Tab2NoQuery ==
    /\ pc = "tab2"
    /\ (df.rows = <<>> \/ data_source # "SQLite")
    /\ pc' = "tab3"
    /\ UNCHANGED <<year, storeVars, viewVars, fetchVars, fetches>>

\* Lines 402-407 (and the same call of line 272).
RenderAnalytics ==
    /\ pc = "tab3"
    /\ IF df.rows = <<>> THEN analytics' = <<>>
       ELSE analytics' \in AnalyticsTables(df.columns, df.rows)
    /\ pc' = "tab4"
    /\ UNCHANGED <<year, storeVars, data_source, df, search_query,
                   queryReport, fetchVars, fetches>>

----------------------------------------------------------------------------
(* Tab 4 and the two fetch functions *)

BreakOnError(i, kind) == IF kind = "error" THEN Len(tickers) ELSE i + 1

\* The for loop: after an item, whatever became of it (appended, or left by
\* one of the two "continue"), comes the next one.
NextIndex(i, kind) == i + 1

Report(i, t, kind) == [i |-> i, t |-> t, kind |-> kind]

\* st.warning for an empty filings list, st.error for an exception.
Reported(o, i, t) ==
    CASE o.kind = "nofiling" -> <<Report(i, t, "warning")>>
      [] o.kind = "error"    -> <<Report(i, t, "error")>>
      [] OTHER               -> <<>>

Written(t, f, y) == [ticker |-> t, fin |-> f, year |-> y]

StartFetch(b, ts) ==
    /\ backend' = b
    /\ tickers' = ts
    /\ idx' = 0
    /\ results' = <<>>
    /\ attempted' = <<>>
    /\ reports' = <<>>
    /\ written' = <<>>
    /\ success' = <<>>
    /\ fetches' = fetches + 1

\* No button pressed: the run ends after tab 5.
NoButton ==
    /\ pc = "tab4"
    /\ pc' = "idle"
    /\ ResetView
    /\ UNCHANGED <<year, storeVars, fetchVars, fetches>>

\* Lines 498-501 and 79-83.
ButtonSqlite(ts) ==
    /\ pc = "tab4"
    /\ fetches < MaxFetches
    /\ Len(sqlRows) + Len(ts) <= MaxStored
    /\ StartFetch("SQLite", ts)
    /\ conn' = "open"
    /\ client' = "none"
    /\ port' = {}
    /\ pc' = "sqlite_loop"
    /\ ResetView
    /\ UNCHANGED <<year, storeVars>>

\* Lines 85-116, one identifier.
SqliteItem ==
    /\ pc = "sqlite_loop"
    /\ idx < Len(tickers)
    /\ LET t == tickers[idx + 1]
       IN \E o \in Outcomes(t, year) :
            /\ attempted' = Append(attempted, t)
            /\ reports' = reports \o Reported(o, idx + 1, t)
            /\ results' = (IF o.kind = "filing"
                           THEN Append(results, SqliteData(t, o.fin, year))
                           ELSE results)
            /\ idx' = NextIndex(idx, o.kind)
    /\ UNCHANGED <<year, storeVars, pc, viewVars, backend, tickers,
                   written, success, conn, client, port, fetches>>

\* Lines 118-125: the write raises out of fetch_to_sqlite when refused.
SqliteSave ==
    /\ pc = "sqlite_loop"
    /\ idx >= Len(tickers)
    /\ IF results = <<>>
       THEN /\ conn' = "closed"
            /\ pc' = "returned"
            /\ UNCHANGED <<storeVars, written, success>>
       ELSE IF ToSqlAccepted(Table, results)
       THEN /\ SetTable(to_sql(Table, results))
            /\ written' = [i \in 1..Len(results) |->
                             Written(results[i].ticker,
                                     [k \in DOMAIN FA |-> results[i][k]],
                                     results[i].year)]
            /\ success' = <<Len(results)>>
            /\ conn' = "closed"
            /\ pc' = "returned"
            /\ UNCHANGED mongoDocs
       ELSE /\ pc' = "raised"
            /\ UNCHANGED <<storeVars, written, success, conn>>
    /\ UNCHANGED <<year, viewVars, backend, tickers, idx, results,
                   attempted, reports, client, port, fetches>>

\* Lines 507-515: the button asks for a client before it calls the function.
ButtonMongo(ts, up) ==
    /\ pc = "tab4"
    /\ fetches < MaxFetches
    /\ IF get_mongo_client(up).client # Null
       THEN /\ StartFetch("MongoDB", ts)
            /\ conn' = "none"
            /\ client' = "none"
            /\ port' = {}
            /\ pc' = "mongo_call"
       ELSE /\ pc' = "idle"
            /\ UNCHANGED <<fetchVars, fetches>>
    /\ ResetView
    /\ UNCHANGED <<year, storeVars>>

\* Lines 129-138.
FetchMongoStart(up) ==
    /\ pc = "mongo_call"
    /\ IF get_mongo_client(up).client = Null
       THEN /\ reports' = <<Report(0, Null, "unavailable")>>
            /\ pc' = "returned"
            /\ UNCHANGED <<client, port>>
       ELSE /\ client' = "open"
            /\ port' = get_mongo_client(up).port
            /\ pc' = "mongo_loop"
            /\ UNCHANGED reports
    /\ UNCHANGED <<year, storeVars, viewVars, backend, tickers, idx,
                   results, attempted, written, success, conn, fetches>>

\* Lines 140-183, one identifier.
MongoItem ==
    /\ pc = "mongo_loop"
    /\ idx < Len(tickers)
    /\ LET t == tickers[idx + 1]
       IN \E o \in Outcomes(t, year) :
            /\ attempted' = Append(attempted, t)
            /\ reports' = reports \o Reported(o, idx + 1, t)
            /\ IF o.kind = "filing"
               THEN /\ mongoDocs' =
                         update_one(mongoDocs, t, Document(t, o.fin, year))
                    /\ written' = Append(written, Written(t, o.fin, year))
               ELSE UNCHANGED <<mongoDocs, written>>
            /\ idx' = NextIndex(idx, o.kind)
    /\ UNCHANGED <<year, sqlExists, sqlCols, sqlPK, sqlRows, pc,
                   viewVars, backend, tickers, results, success, conn, client,
                   port, fetches>>

\* Lines 185-187.
MongoFinish ==
    /\ pc = "mongo_loop"
    /\ idx >= Len(tickers)
    /\ success' = <<Len(tickers)>>
    /\ pc' = "returned"
    /\ UNCHANGED <<year, storeVars, viewVars, backend, tickers, idx,
                   results, attempted, reports, written, conn, client, port,
                   fetches>>

\* st.rerun() after the function returned, or the run dying of its exception:
\* either way this run's widgets, messages and locals are gone.
EndRun ==
    /\ pc \in {"returned", "raised"}
    /\ pc' = "idle"
    /\ ResetView
    /\ tickers' = <<>>
    /\ idx' = 0
    /\ results' = <<>>
    /\ attempted' = <<>>
    /\ reports' = <<>>
    /\ success' = <<>>
    /\ conn' = "none"
    /\ client' = "none"
    /\ port' = {}
    /\ UNCHANGED <<year, storeVars, backend, written, fetches>>

----------------------------------------------------------------------------
(* The world outside the script *)

\* New Year, between two runs.
Tick ==
    /\ pc = "idle"
    /\ year + 1 \in Years
    /\ year' = year + 1
    /\ UNCHANGED <<storeVars, pc, viewVars, fetchVars, fetches>>

Next ==
    \/ ScriptStart
    \/ \E src \in {"SQLite", "MongoDB"}, up \in SUBSET PortSet : Load(src, up)
    \/ \E q \in Queries : Tab2Query(q)
    \/ Tab2NoQuery
    \/ RenderAnalytics
    \/ NoButton
    \/ \E ts \in TickerLists : ButtonSqlite(ts)
    \/ SqliteItem
    \/ SqliteSave
    \/ \E ts \in TickerLists, up \in SUBSET PortSet : ButtonMongo(ts, up)
    \/ \E up \in SUBSET PortSet : FetchMongoStart(up)
    \/ MongoItem
    \/ MongoFinish
    \/ EndRun
    \/ Tick

Spec == Init /\ [][Next]_vars

----------------------------------------------------------------------------
(* The ratio engine on its own: tab 3 over any small loaded table *)

RatioFigures ==
    [revenue : {0, 3}, net_income : {-1}, assets : {0, 4},
     liabilities : {0, 1}, equity : {0, 32}]

\* Row i of the table: its own (ticker, year), as the primary key demands.
RatioRow(i, f) ==
    [ticker |-> IF i % 2 = 1 THEN "AAPL" ELSE "MSFT",
     year |-> 2025 + ((i - 1) \div 2),
     revenue |-> f.revenue, net_income |-> f.net_income, assets |-> f.assets,
     liabilities |-> f.liabilities, equity |-> f.equity]

RatioTables(max) ==
    UNION {{[i \in 1..n |-> RatioRow(i, fs[i])] : fs \in [1..n -> RatioFigures]} :
             n \in 0..max}

InitRatio ==
    /\ year = 2025
    /\ sqlExists = TRUE
    /\ sqlCols = InitColumns
    /\ sqlPK = TRUE
    /\ sqlRows \in RatioTables(MaxRows)
    /\ mongoDocs = <<>>
    /\ pc = "tab3"
    /\ data_source = "SQLite"
    /\ df = LoadSqlite
    /\ search_query = DefaultQuery
    /\ queryReport = "none"
    /\ analytics = <<>>
    /\ backend = Null
    /\ tickers = <<>>
    /\ idx = 0
    /\ results = <<>>
    /\ attempted = <<>>
    /\ reports = <<>>
    /\ written = <<>>
    /\ success = <<>>
    /\ conn = "none"
    /\ client = "none"
    /\ port = {}
    /\ fetches = 0

SpecRatio == InitRatio /\ [][RenderAnalytics]_vars

----------------------------------------------------------------------------
(* Claims about the ratio engine, checked under SpecRatio *)

Rendered == pc = "tab4" /\ Len(analytics) = Len(df.rows)

IsNull(x) == x.k \in {"none", "nan"}

\* x is n/d to within half of 1/scale.
IsQuotient(x, n, d, scale) ==
    /\ x.k = "num"
    /\ 2 * Abs(scale * n - x.v * d) <= Abs(d)

\* C9 as stated: a zero denominator gives a null in that row's ratio, and
\* every ratio with a non-zero denominator is the quotient of its two columns
\* (read here to the precision the column is kept in).
RatioOrNull(x, n, d) ==
    IF d = 0 THEN IsNull(x) ELSE IsQuotient(x, n, d, 10000)

C9_ZeroDenominatorIsNull ==
    pc = "tab4" =>
      /\ Len(analytics) = Len(df.rows)
      /\ \A i \in 1..Len(analytics) :
           LET r == df.rows[i]
               x == analytics[i].ratios
           IN /\ RatioOrNull(x.ROE, r.net_income, r.equity)
              /\ RatioOrNull(x.Debt_to_Equity, r.liabilities, r.equity)
              /\ RatioOrNull(x.Profit_Margin, r.net_income, r.revenue)
              /\ RatioOrNull(x.Asset_Turnover, r.revenue, r.assets)

\* C10: once tab 3 is rendered every row has its Altman_Z_Score; it is None
\* when assets = 0 or liabilities = 0, and otherwise a number within 0.005 of
\* 1.2*((assets-liabilities)/assets) + 3.3*(net_income/assets)
\* + 0.6*(equity/liabilities). (Both sides are multiplied by
\* 1000 * assets * liabilities.)
C10_AltmanZScore ==
    pc = "tab4" =>
      /\ Len(analytics) = Len(df.rows)
      /\ \A i \in 1..Len(analytics) :
           LET r == df.rows[i]
               z == analytics[i].Altman_Z_Score
               a == r.assets
               l == r.liabilities
           IN IF a = 0 \/ l = 0 THEN z = None
              ELSE /\ z.k = "num"
                   /\ 2 * Abs(10 * a * l * z.v
                              - 100 * (12 * (a - l) * l + 33 * r.net_income * l
                                       + 6 * r.equity * a))
                        <= 10 * Abs(a * l)

\* Reached: a rendered two-row table, one row without a score next to one
\* whose score is a number other than 0.
C10_Witness ==
    /\ Rendered
    /\ \E i, j \in 1..Len(analytics) :
         /\ df.rows[i].assets = 0
         /\ analytics[i].Altman_Z_Score = None
         /\ df.rows[j].assets # 0
         /\ df.rows[j].liabilities # 0
         /\ analytics[j].Altman_Z_Score.k = "num"
         /\ analytics[j].Altman_Z_Score.v # 0

----------------------------------------------------------------------------
(* Claims about ingestion and the stores, checked under Spec *)

InLoop == pc \in {"sqlite_loop", "mongo_loop"}
Ended == pc \in {"returned", "raised"}
Unavailable == reports = <<Report(0, Null, "unavailable")>>

\* The records this fetch has derived so far.
Derived == IF backend = "SQLite" THEN Len(results) ELSE Len(written)

\* C1: with the document store available, the identifiers announced so far
\* are exactly the first idx of the list, in order; each of them has either
\* yielded a record or one report naming it at its own position; and when the
\* function has stopped, the whole list has been announced, once each.
C1_EveryIdentifierAttempted ==
    /\ InLoop =>
         /\ idx <= Len(tickers)
         /\ attempted = SubSeq(tickers, 1, idx)
         /\ Len(reports) + Derived = idx
         /\ \A k \in 1..Len(reports) :
              /\ reports[k].i \in 1..idx
              /\ reports[k].t = tickers[reports[k].i]
              /\ \A j \in 1..(k-1) : reports[j].i < reports[k].i
    /\ (Ended /\ ~Unavailable) => attempted = tickers

\* Reached: a document-store fetch of two identifiers has returned, the first
\* reported as an error and the second persisted after it.
C1_Witness ==
    /\ pc = "returned"
    /\ backend = "MongoDB"
    /\ Len(tickers) = 2
    /\ attempted = tickers
    /\ Len(reports) = 1
    /\ reports[1] = Report(1, tickers[1], "error")
    /\ Len(written) = 1
    /\ written[1].ticker = tickers[2]

\* C2 as stated: a fetch never ends by raising, and a list of one valid and
\* one invalid identifier ends with one persisted record and one report.
C2_IngestionNeverRaises ==
    Ended =>
      /\ pc = "returned"
      /\ (Len(tickers) = 2 /\ Len(reports) = 1 /\ ~Unavailable)
           => Len(written) = 1

\* C3 as stated, step by step: the write that ends a relational fetch of a
\* ticker the table already holds for another year, with every (ticker, year)
\* new to the table, leaves the earlier rows as they were and adds one row
\* per record; a document-store write leaves exactly one document for its
\* ticker, carrying the values just fetched.
C3_RelationalAppends ==
    (/\ pc = "sqlite_loop"
     /\ pc' # "sqlite_loop"
     /\ \E i \in 1..Len(results), j \in 1..Len(sqlRows) :
           sqlRows[j].ticker = results[i].ticker
     /\ KeysDistinct(sqlRows \o results))
      => sqlRows' = sqlRows \o results

C3_DocumentOverwrites ==
    (pc = "mongo_loop" /\ Len(written') = Len(written) + 1)
      => LET w == written'[Len(written')]
             hits == {i \in 1..Len(mongoDocs') :
                        mongoDocs'[i].ticker = w.ticker}
         IN /\ Cardinality(hits) = 1
            /\ \A i \in hits :
                 /\ mongoDocs'[i].financials.revenue = w.fin.revenue
                 /\ mongoDocs'[i].financials.net_income = w.fin.net_income
                 /\ mongoDocs'[i].financials.total_assets = w.fin.assets
                 /\ mongoDocs'[i].financials.total_liabilities
                      = w.fin.liabilities
                 /\ mongoDocs'[i].timestamp = w.year

C3_ReingestDivergesByBackend ==
    [][C3_RelationalAppends /\ C3_DocumentOverwrites]_vars

\* C4 as stated: the count st.success shows is the number of records the
\* store took from this fetch.
C4_SuccessCountIsPersisted ==
    (pc = "returned" /\ success # <<>>) => success[1] = Len(written)

\* C5 as stated: after a statement other than a SELECT went through the query
\* box, an error is shown and the table holds the rows loaded before it.
C5_NonSelectLeavesRows ==
    (/\ pc = "tab3"
     /\ data_source = "SQLite"
     /\ df.rows # <<>>
     /\ search_query # DefaultQuery)
      => /\ queryReport = "error"
         /\ sqlExists
         /\ sqlRows = df.rows

\* The latest record of each ticker in the latest fetch.
LatestWritten ==
    {k \in 1..Len(written) :
       \A j \in (k+1)..Len(written) : written[j].ticker # written[k].ticker}

SameMoney(row, f) ==
    /\ row.revenue = f.revenue
    /\ row.net_income = f.net_income
    /\ row.assets = f.assets
    /\ row.liabilities = f.liabilities
    /\ row.equity = f.equity

\* C6 as stated: the table loaded from the store the latest fetch wrote to
\* has, for each record written, a row with the filing's revenue, net_income,
\* assets, liabilities and equity.
C6_RoundTrip ==
    (/\ pc = "tab2"
     /\ data_source = backend
     /\ df.rows # <<>>)
      => \A k \in LatestWritten :
           \E i \in 1..Len(df.rows) :
             /\ df.rows[i].ticker = written[k].ticker
             /\ SameMoney(df.rows[i], written[k].fin)

\* C7 as stated: a table loaded from the document store has the columns of
\* the table loaded from the relational store: ticker, year, revenue,
\* net_income, assets, liabilities, equity.
C7_SameColumns ==
    (pc = "tab2" /\ data_source = "MongoDB" /\ df.rows # <<>>)
      => /\ df.columns = LoadSqlite.columns
         /\ df.columns = {"ticker", "year", "revenue", "net_income", "assets",
                          "liabilities", "equity"}

\* C8 as stated: when a fetch has stopped, every record it derived is in the
\* store with its audit_pass: on the relational path 1 exactly when
\* |assets - (liabilities + equity)| < 1,000,000, on the document path 1
\* exactly when assets > 0.
C8_AuditPassPersisted ==
    Ended =>
      /\ backend = "SQLite" =>
           \A i \in 1..Len(results) :
             /\ results[i].audit_pass \in {0, 1}
             /\ results[i].audit_pass = 1
                  <=> Abs(results[i].assets
                          - (results[i].liabilities + results[i].equity))
                        < 1000000
             /\ \E j \in 1..Len(sqlRows) : sqlRows[j] = results[i]
      /\ backend = "MongoDB" =>
           \A k \in LatestWritten :
             \E j \in 1..Len(mongoDocs) :
               /\ mongoDocs[j].ticker = written[k].ticker
               /\ mongoDocs[j].audit_pass \in {0, 1}
               /\ mongoDocs[j].audit_pass = 1 <=> written[k].fin.assets > 0

----------------------------------------------------------------------------
(* Claims about the document store's client *)

\* What fetch_to_mongodb does when no client could be had: one error shown,
\* a normal return, no identifier announced, nothing written.
ReturnsUnavailable ==
    /\ pc' = "returned"
    /\ reports' = <<Report(0, Null, "unavailable")>>
    /\ client' = "none"
    /\ port' = {}
    /\ attempted' = <<>>
    /\ written' = <<>>
    /\ success' = <<>>
    /\ UNCHANGED storeVars

\* C11: whenever fetch_to_mongodb asks for a client, it gets the client of
\* 27017 if 27017 answers, the client of 27018 only if 27017 does not answer
\* and 27018 does, and if neither answers it shows the error and returns
\* normally without having announced an identifier or written anything.
C11_PortOrderAndUnavailable ==
    [][\A up \in SUBSET PortSet :
         FetchMongoStart(up) =>
           /\ pc' # "raised"
           /\ 27017 \in up => (client' = "open" /\ port' = {27017})
           /\ (27017 \notin up /\ 27018 \in up) =>
                (client' = "open" /\ port' = {27018})
           /\ (27017 \notin up /\ 27018 \notin up) => ReturnsUnavailable]_vars

\* Reached: the loop runs on the client of the fallback port.
C11_Witness ==
    /\ pc = "mongo_loop"
    /\ client = "open"
    /\ port = {27018}

----------------------------------------------------------------------------
(* Claims about when records reach the store, and about the connections *)

\* Record i of this fetch is in its store: the row itself in financials, or
\* the identifier's document carrying the record's figures.
Persisted(i) ==
    IF backend = "SQLite"
    THEN \E j \in 1..Len(sqlRows) : sqlRows[j] = results[i]
    ELSE \E j \in 1..Len(mongoDocs) :
           /\ mongoDocs[j].ticker = written[i].ticker
           /\ mongoDocs[j].financials.revenue = written[i].fin.revenue
           /\ mongoDocs[j].financials.net_income = written[i].fin.net_income
           /\ mongoDocs[j].financials.total_assets = written[i].fin.assets
           /\ mongoDocs[j].financials.total_liabilities =
                written[i].fin.liabilities

\* C12 as stated: when a fetch is about to fetch its next identifier, and
\* when it has stopped (returned or raised), every record it has derived from
\* the identifiers it is done with is already in the store.
C12_WrittenBeforeNextFetch ==
    ((InLoop /\ idx < Len(tickers)) \/ Ended) =>
      \A i \in 1..Derived : Persisted(i)

\* C13 as stated: when fetch_to_sqlite or fetch_to_mongodb has stopped
\* (normal return, early return, or a failing store write), the connection
\* or client it opened has been closed.
C13_ConnectionsReleased ==
    Ended => (conn # "open" /\ client # "open")

====
